---- MODULE Spec2Model ----
(***************************************************************************)
(* Model of challenge-1/agents/fault_diagnosis_agent.py: the module-level  *)
(* configuration read from the environment and the single run of main().   *)
(* Remote calls are nondeterministic: each either returns a value chosen   *)
(* by the remote service or raises an Exception.                           *)
(***************************************************************************)
EXTENDS Integers, Sequences, FiniteSets, TLC

VARIABLES
    environ,                    \* os.environ after load_dotenv(override=True)
    project_endpoint,           \* module variables, lines 10-18
    model_name,
    search_endpoint,
    machine_wiki_mcp_endpoint,
    machine_data_mcp_endpoint,
    apim_subscription_key,
    pc,                         \* position of main()
    project_client,             \* locals of main()
    agent,
    openai_client,
    conversation,
    response,
    exc,                        \* the exception raised in this run, if any
    calls,                      \* remote calls issued, in order, with arguments
    returned,                   \* remote calls that returned, in order, with results
    stdout,                     \* lines printed
    result                      \* value returned by main()

vars == <<environ, project_endpoint, model_name, search_endpoint,
          machine_wiki_mcp_endpoint, machine_data_mcp_endpoint,
          apim_subscription_key, pc, project_client, agent, openai_client,
          conversation, response, exc, calls, returned, stdout, result>>

config == <<environ, project_endpoint, model_name, search_endpoint,
            machine_wiki_mcp_endpoint, machine_data_mcp_endpoint,
            apim_subscription_key>>

-----------------------------------------------------------------------------
(* Python values: None is <<>>, any other value v is <<v>>.                *)

None == <<>>

Some(v) == <<v>>

\* str() of a value inside an f-string: None is rendered as the text "None".
Format(x) == IF x = None THEN "None" ELSE x[1]

-----------------------------------------------------------------------------
(* Bounds of the model.                                                    *)

\* agent versions the remote service may answer create_version with
MaxAgentVersion == 2

\* conversation ids the remote service may answer conversations.create with
MaxConversation == 2

-----------------------------------------------------------------------------
(* Module-level configuration, lines 9-18.                                 *)

EnvNames == {"AZURE_AI_PROJECT_ENDPOINT", "MODEL_DEPLOYMENT_NAME",
             "SEARCH_SERVICE_ENDPOINT", "MACHINE_MCP_SERVER_ENDPOINT",
             "APIM_SUBSCRIPTION_KEY"}

\* Values a variable may have in the process environment / in the .env file.
EnvValues(n) ==
    CASE n = "AZURE_AI_PROJECT_ENDPOINT"   -> <<"https://proj.example/api", "https://proj2.example/api">>
      [] n = "MODEL_DEPLOYMENT_NAME"       -> <<"gpt-4.1", "gpt-4o">>
      [] n = "SEARCH_SERVICE_ENDPOINT"     -> <<"https://search.example/", "https://search.example">>
      [] n = "MACHINE_MCP_SERVER_ENDPOINT" -> <<"https://apim.example/mcp", "https://apim2.example/mcp">>
      [] n = "APIM_SUBSCRIPTION_KEY"       -> <<"key-1", "key-2">>

\* The process environment: each variable unset or set to its first value.
OsEnvironments == { [n \in EnvNames |-> IF n \in S THEN Some(EnvValues(n)[1]) ELSE None]
                    : S \in SUBSET EnvNames }

\* The .env file: each variable absent or given its second value.
DotenvFiles == { [n \in EnvNames |-> IF n \in S THEN Some(EnvValues(n)[2]) ELSE None]
                 : S \in SUBSET EnvNames }

\* load_dotenv(override): a variable of the file is exported; one already in
\* the environment is replaced only when override is set.
load_dotenv(os, file, override) ==
    [n \in EnvNames |->
        IF file[n] # None /\ (override \/ os[n] = None) THEN file[n] ELSE os[n]]

\* os.environ.get(name): the value, or None when the variable is unset.
environ_get(env, n) == env[n]

knowledge_base_name == "machine-kb"

\* Variant: a path separator is inserted after the search endpoint.
MachineWikiMcpEndpointSlash(search) ==
    Format(search) \o "/knowledgebases/" \o knowledge_base_name
                   \o "/mcp?api-version=2025-11-01-preview"

\* line 16: f"{search_endpoint}knowledgebases/{knowledge_base_name}/mcp?api-version=..."
MachineWikiMcpEndpoint(search) ==
    Format(search) \o "knowledgebases/" \o knowledge_base_name
                   \o "/mcp?api-version=2025-11-01-preview"

Init ==
    /\ \E os \in OsEnvironments, file \in DotenvFiles :
           environ = load_dotenv(os, file, TRUE)
    /\ project_endpoint = environ_get(environ, "AZURE_AI_PROJECT_ENDPOINT")
    /\ model_name = environ_get(environ, "MODEL_DEPLOYMENT_NAME")
    /\ search_endpoint = environ_get(environ, "SEARCH_SERVICE_ENDPOINT")
    /\ machine_wiki_mcp_endpoint = MachineWikiMcpEndpoint(search_endpoint)
    /\ machine_data_mcp_endpoint = environ_get(environ, "MACHINE_MCP_SERVER_ENDPOINT")
    /\ apim_subscription_key = environ_get(environ, "APIM_SUBSCRIPTION_KEY")
    /\ pc = "AIProjectClient"
    /\ project_client = None
    /\ agent = None
    /\ openai_client = None
    /\ conversation = None
    /\ response = None
    /\ exc = None
    /\ calls = <<>>
    /\ returned = <<>>
    /\ stdout = <<>>
    /\ result = None

-----------------------------------------------------------------------------
(* What the remote service may answer.                                     *)

\* create_version answers with an agent version object (id, name).
AgentNames == {"FaultDiagnosisAgent", "faultdiagnosisagent"}

AgentObjects == [id : 1..MaxAgentVersion, name : AgentNames]

ConversationObjects == [id : 1..MaxConversation]

ResponseObjects == [output_text : {"{\"MachineId\": \"machine-001\"}", "I don't know"}]

-----------------------------------------------------------------------------
(* The agent definition, lines 29-83.                                      *)

\* lines 31-63, abbreviated to its first sentence
Instructions == "You are a Fault Diagnosis Agent evaluating the root cause of maintenance alerts."

\* lines 67-72
MachineDataTool ==
    [server_label          |-> "machine-data",
     server_url            |-> machine_data_mcp_endpoint,
     require_approval      |-> "never",
     project_connection_id |-> "machine-data-connection"]

\* lines 74-79
MachineWikiTool ==
    [server_label          |-> "machine-wiki",
     server_url            |-> Some(machine_wiki_mcp_endpoint),
     require_approval      |-> "never",
     project_connection_id |-> "machine-wiki-connection"]

\* lines 29-83
PromptAgentDefinition ==
    [model        |-> "gpt-4.1",
     instructions |-> Instructions,
     tools        |-> <<MachineDataTool, MachineWikiTool>>]

\* lines 98-100
SampleQuery ==
    "Hello, what can the issue be when machine-001 has curing temperature reading of 179.2C that exceeds warning threshold of 178C?"

-----------------------------------------------------------------------------
(* Exception handling: the try blocks of main.                             *)

\* Call sites of main, named by what they call.
Sites == {"AIProjectClient", "create_version", "get_openai_client",
          "conversations.create", "responses.create"}

\* Variant: the outer try opens only after the project client is built.
OuterTryAfterClient == Sites \ {"AIProjectClient"}

\* the try of line 22, closed by the except of line 112
OuterTry == Sites

\* Variant: the inner try opens only after the OpenAI client is obtained.
InnerTryAfterClient == {"conversations.create", "responses.create"}

\* the try of line 87, closed by the except of line 106
InnerTry == {"get_openai_client", "conversations.create", "responses.create"}

\* Variant: a failed agent creation is swallowed and the smoke test runs anyway.
HandlerContinueAfterAgentError(site) ==
    IF site = "create_version" THEN "get_openai_client"
    ELSE IF site \in InnerTry THEN "except_test_error"
    ELSE IF site \in OuterTry THEN "except_e"
    ELSE "propagate"

\* Variant: there is no inner try; every failure reaches the outer handler.
HandlerOuterOnly(site) ==
    IF site \in OuterTry THEN "except_e" ELSE "propagate"

\* Variant: a failed client construction is tried again.
HandlerRetryClient(site) ==
    IF site = "AIProjectClient" THEN "AIProjectClient"
    ELSE IF site \in InnerTry THEN "except_test_error"
    ELSE IF site \in OuterTry THEN "except_e"
    ELSE "propagate"

\* Where an Exception raised at a site continues: the innermost enclosing
\* handler, or out of main when no try encloses the site.
Handler(site) ==
    IF site \in InnerTry THEN "except_test_error"
    ELSE IF site \in OuterTry THEN "except_e"
    ELSE "propagate"

\* An Exception raised at a site; nothing else of the state changes.
Raise(site) ==
    /\ exc' = Some(site)
    /\ pc' = Handler(site)

\* Source line of each position of main.
Line(p) ==
    CASE p = "AIProjectClient"      -> 24
      [] p = "create_version"       -> 26
      [] p = "print_created"        -> 84
      [] p = "get_openai_client"    -> 90
      [] p = "conversations.create" -> 93
      [] p = "responses.create"     -> 96
      [] p = "print_response"       -> 105
      [] p = "except_test_error"    -> 106
      [] p = "return_agent"         -> 110
      [] p = "except_e"             -> 112
      [] p = "done"                 -> 116
      [] p = "propagate"            -> 117

-----------------------------------------------------------------------------
(* The steps of main, lines 21-115.                                        *)

\* lines 24-25: credential and project client construction
ConstructClient ==
    /\ pc = "AIProjectClient"
    /\ \/ /\ project_client' = Some([endpoint |-> project_endpoint])
          /\ pc' = "create_version"
          /\ UNCHANGED exc
       \/ /\ Raise("AIProjectClient")
          /\ UNCHANGED project_client
    /\ UNCHANGED <<config, agent, openai_client, conversation, response,
                   calls, returned, stdout, result>>

\* lines 26-83: project_client.agents.create_version(...)
CreateVersion ==
    /\ pc = "create_version"
    /\ calls' = Append(calls, [op          |-> "agents.create_version",
                               agent_name  |-> "FaultDiagnosisAgent",
                               description |-> "Fault diagnosis agent",
                               definition  |-> PromptAgentDefinition])
    /\ \/ \E a \in AgentObjects :
              /\ agent' = Some(a)
              /\ returned' = Append(returned, [op |-> "agents.create_version", value |-> a])
              /\ pc' = "print_created"
              /\ UNCHANGED exc
       \/ /\ Raise("create_version")
          /\ UNCHANGED <<agent, returned>>
    /\ UNCHANGED <<config, project_client, openai_client, conversation,
                   response, stdout, result>>

\* lines 84-86
PrintCreated ==
    /\ pc = "print_created"
    /\ stdout' = stdout \o <<[kind |-> "Created Fault Diagnosis Agent", arg |-> agent[1].id],
                             [kind |-> "Testing the agent", arg |-> ""]>>
    /\ pc' = "get_openai_client"
    /\ UNCHANGED <<config, project_client, agent, openai_client, conversation,
                   response, exc, calls, returned, result>>

\* line 90: project_client.get_openai_client()
GetOpenAIClient ==
    /\ pc = "get_openai_client"
    /\ calls' = Append(calls, [op |-> "get_openai_client"])
    /\ \/ /\ openai_client' = Some([project |-> project_client[1].endpoint])
          /\ returned' = Append(returned, [op |-> "get_openai_client", value |-> 0])
          /\ pc' = "conversations.create"
          /\ UNCHANGED exc
       \/ /\ Raise("get_openai_client")
          /\ UNCHANGED <<openai_client, returned>>
    /\ UNCHANGED <<config, project_client, agent, conversation, response,
                   stdout, result>>

\* line 93: openai_client.conversations.create()
CreateConversation ==
    /\ pc = "conversations.create"
    /\ calls' = Append(calls, [op |-> "conversations.create"])
    /\ \/ \E c \in ConversationObjects :
              /\ conversation' = Some(c)
              /\ returned' = Append(returned, [op |-> "conversations.create", value |-> c])
              /\ pc' = "responses.create"
              /\ UNCHANGED exc
       \/ /\ Raise("conversations.create")
          /\ UNCHANGED <<conversation, returned>>
    /\ UNCHANGED <<config, project_client, agent, openai_client, response,
                   stdout, result>>

\* Variant: the message refers to the agent by the requested name, not by
\* the name of the agent object the service returned.
SendMessageByRequestedName ==
    /\ pc = "responses.create"
    /\ IF conversation = None \/ agent = None
       THEN /\ Raise("responses.create")
            /\ UNCHANGED <<calls, response, returned>>
       ELSE /\ calls' = Append(calls, [op           |-> "responses.create",
                                       conversation |-> conversation[1].id,
                                       input        |-> SampleQuery,
                                       extra_body   |-> [agent |-> [name |-> "FaultDiagnosisAgent",
                                                                    type |-> "agent_reference"]]])
            /\ \/ \E r \in ResponseObjects :
                      /\ response' = Some(r)
                      /\ returned' = Append(returned, [op |-> "responses.create", value |-> r])
                      /\ pc' = "print_response"
                      /\ UNCHANGED exc
               \/ /\ Raise("responses.create")
                  /\ UNCHANGED <<response, returned>>
    /\ UNCHANGED <<config, project_client, agent, openai_client, conversation,
                   stdout, result>>

\* lines 96-103: openai_client.responses.create(...).  The arguments
\* conversation.id and agent.name are evaluated before the call is issued;
\* evaluating an attribute of a name that holds no object raises.
SendMessage ==
    /\ pc = "responses.create"
    /\ IF conversation = None \/ agent = None
       THEN /\ Raise("responses.create")
            /\ UNCHANGED <<calls, response, returned>>
       ELSE /\ calls' = Append(calls, [op           |-> "responses.create",
                                       conversation |-> conversation[1].id,
                                       input        |-> SampleQuery,
                                       extra_body   |-> [agent |-> [name |-> agent[1].name,
                                                                    type |-> "agent_reference"]]])
            /\ \/ \E r \in ResponseObjects :
                      /\ response' = Some(r)
                      /\ returned' = Append(returned, [op |-> "responses.create", value |-> r])
                      /\ pc' = "print_response"
                      /\ UNCHANGED exc
               \/ /\ Raise("responses.create")
                  /\ UNCHANGED <<response, returned>>
    /\ UNCHANGED <<config, project_client, agent, openai_client, conversation,
                   stdout, result>>

\* line 105
PrintResponse ==
    /\ pc = "print_response"
    /\ stdout' = Append(stdout, [kind |-> "Agent response", arg |-> response[1].output_text])
    /\ pc' = "return_agent"
    /\ UNCHANGED <<config, project_client, agent, openai_client, conversation,
                   response, exc, calls, returned, result>>

\* Variant: a failed smoke test is run again.
ExceptTestErrorRetry ==
    /\ pc = "except_test_error"
    /\ stdout' = Append(stdout, [kind |-> "Agent test failed", arg |-> exc[1]])
    /\ pc' = "get_openai_client"
    /\ UNCHANGED <<config, project_client, agent, openai_client, conversation,
                   response, exc, calls, returned, result>>

\* lines 106-108: except Exception as test_error
ExceptTestError ==
    /\ pc = "except_test_error"
    /\ stdout' = Append(stdout, [kind |-> "Agent test failed", arg |-> exc[1]])
    /\ pc' = "return_agent"
    /\ UNCHANGED <<config, project_client, agent, openai_client, conversation,
                   response, exc, calls, returned, result>>

\* Variant: the agent is returned only when the smoke test passed.
ReturnAgentIfTested ==
    /\ pc = "return_agent"
    /\ result' = IF exc = None THEN agent ELSE None
    /\ pc' = "done"
    /\ UNCHANGED <<config, project_client, agent, openai_client, conversation,
                   response, exc, calls, returned, stdout>>

\* line 110: return agent
ReturnAgent ==
    /\ pc = "return_agent"
    /\ result' = agent
    /\ pc' = "done"
    /\ UNCHANGED <<config, project_client, agent, openai_client, conversation,
                   response, exc, calls, returned, stdout>>

\* lines 112-115: except Exception as e ... return None
ExceptE ==
    /\ pc = "except_e"
    /\ stdout' = stdout \o <<[kind |-> "Error creating agent", arg |-> exc[1]],
                             [kind |-> "Make sure you have run 'az login'", arg |-> ""]>>
    /\ result' = None
    /\ pc' = "done"
    /\ UNCHANGED <<config, project_client, agent, openai_client, conversation,
                   response, exc, calls, returned>>

Next ==
    \/ ConstructClient
    \/ CreateVersion
    \/ PrintCreated
    \/ GetOpenAIClient
    \/ CreateConversation
    \/ SendMessage
    \/ PrintResponse
    \/ ExceptTestError
    \/ ReturnAgent
    \/ ExceptE

Spec == Init /\ [][Next]_vars

\* Every remote call eventually returns or raises, and main runs on.
FairSpec == Spec /\ WF_vars(Next)

-----------------------------------------------------------------------------
(* Vocabulary of the properties.                                           *)

\* the call was issued in this run
Issued(op) == \E i \in DOMAIN calls : calls[i].op = op

\* the call returned successfully in this run
Returned(op) == \E i \in DOMAIN returned : returned[i].op = op

\* how often the call was issued
Count(op) == Cardinality({i \in DOMAIN calls : calls[i].op = op})

\* how many printed lines are of the kind
Printed(kind) == Cardinality({i \in DOMAIN stdout : stdout[i].kind = kind})

\* the failure, if any, was raised at one of the sites
FailedAt(S) == exc # None /\ exc[1] \in S

RemoteOps == {"agents.create_version", "get_openai_client",
              "conversations.create", "responses.create"}

-----------------------------------------------------------------------------
(* Properties.                                                             *)

\* C1: the remote calls are issued in the order create-agent,
\* create-conversation, send-message; a later call is issued only after
\* every earlier one has returned successfully, so no conversation is created
\* and no message sent after a failed agent creation, and no message is sent
\* after a failed conversation creation.
C1_CallsInOrder ==
    /\ Issued("conversations.create") => Returned("agents.create_version")
    /\ Issued("responses.create") =>
           Returned("agents.create_version") /\ Returned("conversations.create")
    /\ \A i, j \in DOMAIN calls :
           /\ (calls[i].op = "agents.create_version"
                 /\ calls[j].op \in {"conversations.create", "responses.create"}) => i < j
           /\ (calls[i].op = "conversations.create"
                 /\ calls[j].op = "responses.create") => i < j
    /\ FailedAt({"AIProjectClient", "create_version"}) =>
           ~Issued("conversations.create") /\ ~Issued("responses.create")
    /\ FailedAt({"conversations.create"}) => ~Issued("responses.create")

C1_Witness ==
    /\ pc = "done"
    /\ Issued("agents.create_version")
    /\ Issued("conversations.create")
    /\ Issued("responses.create")

\* C2 as stated: every failure of a step of main is handled by the outermost
\* handler, which logs it, and the run ends yielding no agent.
C2_AllFailuresOutermost ==
    (pc = "done" /\ exc # None) =>
        /\ Printed("Error creating agent") = 1
        /\ result = None

\* C2 as amended: a failure of client construction or agent creation is
\* handled by the outermost handler, logged, and the run yields no agent; a
\* failure of the smoke test (OpenAI client, conversation, message) is
\* handled by the inner handler, logged, and the run still yields the agent.
\* In both cases the failure ends the run's remaining remote work.
C2_FailuresByEnclosingHandler ==
    /\ pc # "propagate"
    /\ (pc = "done" /\ FailedAt({"AIProjectClient", "create_version"})) =>
           /\ Printed("Error creating agent") = 1
           /\ Printed("Agent test failed") = 0
           /\ result = None
    /\ (pc = "done" /\ FailedAt(InnerTry)) =>
           /\ Printed("Agent test failed") = 1
           /\ Printed("Error creating agent") = 0
           /\ result # None
           /\ result = agent
    /\ (exc # None /\ Len(calls) > 0) =>
           /\ calls[Len(calls)].op # "agents.create_version" => exc[1] = calls[Len(calls)].op
           /\ calls[Len(calls)].op = "agents.create_version" => exc[1] = "create_version"

C2_Witness ==
    /\ pc = "done"
    /\ exc = Some("conversations.create")
    /\ result # None

\* C3: no retries: each remote operation is invoked at most once in a run,
\* and the agent definition is submitted at most once.
C3_NoRetries ==
    /\ \A op \in RemoteOps : Count(op) <= 1
    /\ Cardinality({i \in DOMAIN calls : "definition" \in DOMAIN calls[i]}) <= 1
    /\ \A i \in DOMAIN calls : calls[i].op \in RemoteOps

C3_Witness ==
    /\ pc = "done"
    /\ exc = Some("responses.create")
    /\ \A op \in RemoteOps : Count(op) = 1

\* C4: whatever combination of steps succeeds or raises an Exception, main
\* returns normally, with an agent or with None, never propagates the
\* exception, and has printed a line describing the failure it caught.
C4_SwallowsEveryException ==
    /\ pc # "propagate"
    /\ pc = "done" => (result = None \/ (Len(result) = 1 /\ result[1] \in AgentObjects))
    /\ (pc = "done" /\ exc # None) =>
           \E i \in DOMAIN stdout :
               /\ stdout[i].kind \in {"Error creating agent", "Agent test failed"}
               /\ stdout[i].arg = exc[1]

C4_Witness ==
    /\ pc = "done"
    /\ exc = Some("AIProjectClient")
    /\ result = None

\* C5: when MODEL_DEPLOYMENT_NAME is set, the model identifier of the
\* submitted agent definition is the model name read from it.
C5_ModelFromEnvironment ==
    \A i \in DOMAIN calls :
        (calls[i].op = "agents.create_version"
           /\ environ["MODEL_DEPLOYMENT_NAME"] # None) =>
            /\ model_name = environ["MODEL_DEPLOYMENT_NAME"]
            /\ calls[i].definition.model = model_name[1]

\* C6: the submitted definition carries exactly two tool descriptors,
\* machine-data then machine-wiki, both with approval policy "never", with
\* distinct labels and connection identifiers; the machine-data URL is the
\* MACHINE_MCP_SERVER_ENDPOINT value unchanged and the machine-wiki URL is
\* the SEARCH_SERVICE_ENDPOINT value (the text None when unset) directly
\* followed by knowledgebases/machine-kb/mcp?api-version=2025-11-01-preview.
C6_ToolDescriptors ==
    \A i \in DOMAIN calls :
        calls[i].op = "agents.create_version" =>
            LET tools == calls[i].definition.tools
                search == environ["SEARCH_SERVICE_ENDPOINT"]
                suffix == "knowledgebases/machine-kb/mcp?api-version=2025-11-01-preview"
            IN  /\ Len(tools) = 2
                /\ tools[1].server_label = "machine-data"
                /\ tools[2].server_label = "machine-wiki"
                /\ \A t \in 1..2 :
                       /\ DOMAIN tools[t] = {"server_label", "server_url",
                                             "require_approval", "project_connection_id"}
                       /\ tools[t].require_approval = "never"
                /\ tools[1].project_connection_id # tools[2].project_connection_id
                /\ tools[1].server_label # tools[2].server_label
                /\ tools[1].server_url = environ["MACHINE_MCP_SERVER_ENDPOINT"]
                /\ tools[2].server_url =
                       Some((IF search = None THEN "None" ELSE search[1]) \o suffix)

C6_Witness ==
    /\ Issued("agents.create_version")
    /\ environ["SEARCH_SERVICE_ENDPOINT"] = Some("https://search.example")
    /\ environ["MACHINE_MCP_SERVER_ENDPOINT"] = Some("https://apim2.example/mcp")

\* C7: main returns the created agent exactly when client construction and
\* agent creation succeeded, whatever happens in the smoke test, and returns
\* None exactly when the failure was before or during agent creation.
C7_ResultDependsOnCreationOnly ==
    pc = "done" =>
        /\ result # None <=> (project_client # None /\ Returned("agents.create_version"))
        /\ result # None =>
               /\ result = agent
               /\ \E i \in DOMAIN returned :
                      /\ returned[i].op = "agents.create_version"
                      /\ result = Some(returned[i].value)
        /\ result = None <=> FailedAt({"AIProjectClient", "create_version"})

C7_Witness ==
    /\ pc = "done"
    /\ exc = Some("get_openai_client")
    /\ result # None

\* C8: a submitted message is bound to the conversation id returned by this
\* run's conversations.create and to the name of the agent returned by this
\* run's agents.create_version.
C8_MessageBoundToThisRun ==
    \A i \in DOMAIN calls :
        calls[i].op = "responses.create" =>
            /\ \E k \in DOMAIN returned :
                   /\ returned[k].op = "conversations.create"
                   /\ calls[i].conversation = returned[k].value.id
            /\ \E j \in DOMAIN returned :
                   /\ returned[j].op = "agents.create_version"
                   /\ calls[i].extra_body.agent.name = returned[j].value.name

C8_Witness ==
    /\ Issued("responses.create")
    /\ conversation = Some([id |-> MaxConversation])
    /\ agent # None
    /\ agent[1].name = "faultdiagnosisagent"

\* C9: every run terminates at one of the two return points, and every step
\* moves strictly forward in the text of main: no loop, no re-entry.
C9_Terminates ==
    /\ <>(pc = "done")
    /\ [][Line(pc') > Line(pc)]_vars

C9_Witness ==
    /\ pc = "done"
    /\ Issued("agents.create_version")
    /\ Issued("get_openai_client")

\* C10: the printed lines agree with what happened: one of "Created" and
\* "Error creating agent" per finished run, "Created" only after
\* create_version returned; with the agent created, one of "Agent response"
\* and "Agent test failed", "Agent response" only after responses.create
\* returned; no smoke-test line when agent creation failed.
C10_PrintsConsistent ==
    /\ Printed("Created Fault Diagnosis Agent") + Printed("Error creating agent") <= 1
    /\ pc = "done" =>
           Printed("Created Fault Diagnosis Agent") + Printed("Error creating agent") = 1
    /\ Printed("Created Fault Diagnosis Agent") > 0 => Returned("agents.create_version")
    /\ Printed("Agent response") + Printed("Agent test failed") <= 1
    /\ (pc = "done" /\ Returned("agents.create_version")) =>
           Printed("Agent response") + Printed("Agent test failed") = 1
    /\ Printed("Agent response") > 0 => Returned("responses.create")
    /\ ~Returned("agents.create_version") =>
           /\ Printed("Agent response") = 0
           /\ Printed("Agent test failed") = 0
           /\ Printed("Testing the agent") = 0

C10_Witness ==
    /\ pc = "done"
    /\ Printed("Created Fault Diagnosis Agent") = 1
    /\ Printed("Agent test failed") = 1

====
